---- MODULE Spec2Model ----
(***************************************************************************)
(* A model of the eisenscript interpreter: the Transform algebra, the rule  *)
(* table (RuleSet) built by push / add_action, and the evaluator            *)
(* (RuleSetIterator over Custom::iter / Rule::iter / TransformAction::iter).*)
(*                                                                          *)
(* Numbers: the crate computes in f32.  The model uses integers; every      *)
(* value that occurs below is a small integer, which f32 represents         *)
(* exactly, so no rounding is hidden.                                       *)
(***************************************************************************)
EXTENDS Integers, Sequences, FiniteSets, TLC

(***************************************************************************)
(* Bounds of the model.                                                     *)
(***************************************************************************)
\* top-level actions of one program
MaxTop == 2
\* rule definitions of one program
MaxDefs == 3
\* call frames the evaluating thread's stack holds before it overflows
MaxStack == 7

(***************************************************************************)
(* Transform (lib.rs 251-349)                                               *)
(***************************************************************************)
Identity4 ==
  << <<1, 0, 0, 0>>, <<0, 1, 0, 0>>, <<0, 0, 1, 0>>, <<0, 0, 0, 1>> >>

Dot4(a, b, i, j) ==
  a[i][1] * b[1][j] + a[i][2] * b[2][j] + a[i][3] * b[3][j] + a[i][4] * b[4][j]

Row4(a, b, i) == << Dot4(a, b, i, 1), Dot4(a, b, i, 2), Dot4(a, b, i, 3), Dot4(a, b, i, 4) >>

\* nalgebra Matrix4 product, self.tx *= rhs.tx
MatMul(a, b) == << Row4(a, b, 1), Row4(a, b, 2), Row4(a, b, 3), Row4(a, b, 4) >>

\* impl Default for Transform
DefaultTransform ==
  [tx |-> Identity4, hue |-> 0, sat |-> 1, brightness |-> 1, alpha |-> 1]

\* Transform::translation
Translation(x, y, z) ==
  [DefaultTransform EXCEPT
     !.tx = << <<1, 0, 0, x>>, <<0, 1, 0, y>>, <<0, 0, 1, z>>, <<0, 0, 0, 1>> >>]

\* Transform::hsv
Hsv(hue, sat, brightness) ==
  [DefaultTransform EXCEPT !.hue = hue, !.sat = sat, !.brightness = brightness]

\* The pivoted transforms are T(p) * A * T(-p) with the pivot p at 0.5 on the
\* axes involved.  The model computes the product with the last column of the
\* three factors in half units (PivotMatrix) and converts back (FromHalves):
\* for odd integer scale factors and for quarter turns every entry of the
\* result is an integer, and the literals of the model are confined to these.
PivotMatrix(x2, y2, z2) ==
  << <<1, 0, 0, x2>>, <<0, 1, 0, y2>>, <<0, 0, 1, z2>>, <<0, 0, 0, 1>> >>

FromHalves(m) ==
  [i \in 1..4 |-> [j \in 1..4 |-> IF j = 4 /\ i < 4 THEN m[i][j] \div 2 ELSE m[i][j]]]

Pivoted(x2, y2, z2, a) ==
  FromHalves(MatMul(MatMul(PivotMatrix(x2, y2, z2), a), PivotMatrix(-x2, -y2, -z2)))

\* the cosine and the sine of an angle given in degrees, a multiple of 90
CosDeg(angle) == CASE angle % 360 = 0 -> 1 [] angle % 360 = 180 -> -1 [] OTHER -> 0
SinDeg(angle) == CASE angle % 360 = 90 -> 1 [] angle % 360 = 270 -> -1 [] OTHER -> 0

\* Transform::rotate_x
RotateX(angle) ==
  [DefaultTransform EXCEPT
     !.tx = Pivoted(0, 1, 1,
                    << <<1, 0, 0, 0>>,
                       <<0, CosDeg(angle), -SinDeg(angle), 0>>,
                       <<0, SinDeg(angle), CosDeg(angle), 0>>,
                       <<0, 0, 0, 1>> >>)]

\* Transform::rotate_y
RotateY(angle) ==
  [DefaultTransform EXCEPT
     !.tx = Pivoted(1, 0, 1,
                    << <<CosDeg(angle), 0, SinDeg(angle), 0>>,
                       <<0, 1, 0, 0>>,
                       <<-SinDeg(angle), 0, CosDeg(angle), 0>>,
                       <<0, 0, 0, 1>> >>)]

\* Transform::rotate_z
RotateZ(angle) ==
  [DefaultTransform EXCEPT
     !.tx = Pivoted(1, 1, 0,
                    << <<CosDeg(angle), -SinDeg(angle), 0, 0>>,
                       <<SinDeg(angle), CosDeg(angle), 0, 0>>,
                       <<0, 0, 1, 0>>,
                       <<0, 0, 0, 1>> >>)]

\* Transform::scale
Scale(x, y, z) ==
  [DefaultTransform EXCEPT
     !.tx = Pivoted(1, 1, 1,
                    << <<x, 0, 0, 0>>, <<0, y, 0, 0>>, <<0, 0, z, 0>>, <<0, 0, 0, 1>> >>)]

\* a composition that adds the saturations as it adds the hues
MulSatAdded(a, b) ==
  [tx |-> MatMul(a.tx, b.tx),
   hue |-> a.hue + b.hue,
   sat |-> a.sat + b.sat,
   brightness |-> a.brightness * b.brightness,
   alpha |-> a.alpha * b.alpha]

\* a composition that keeps the hue within one turn of the colour wheel
MulHueWrapped(a, b) ==
  [tx |-> MatMul(a.tx, b.tx),
   hue |-> (a.hue + b.hue) % 360,
   sat |-> a.sat * b.sat,
   brightness |-> a.brightness * b.brightness,
   alpha |-> a.alpha * b.alpha]

\* impl MulAssign / Mul for Transform: a * b
Mul(a, b) ==
  [tx         |-> MatMul(a.tx, b.tx),
   hue        |-> a.hue + b.hue,
   sat        |-> a.sat * b.sat,
   brightness |-> a.brightness * b.brightness,
   alpha      |-> a.alpha * b.alpha]

(***************************************************************************)
(* Primitive, RuleDefinition, Custom, Ambiguous, Rule (lib.rs 9-123)        *)
(* An Option<T> is a sequence of length 0 (None) or 1 (Some).               *)
(***************************************************************************)
Primitives ==
  {"Box", "Sphere", "Dot", "Grid", "Cylinder", "Line", "Mesh", "Template", "Other"}

\* Primitive::name
PrimitiveName(p) ==
  CASE p = "Box"      -> "box"
    [] p = "Sphere"   -> "sphere"
    [] p = "Dot"      -> "dot"
    [] p = "Grid"     -> "grid"
    [] p = "Cylinder" -> "cyliner"
    [] p = "Line"     -> "line"
    [] p = "Mesh"     -> "mesh"
    [] p = "Template" -> "template"
    [] p = "Other"    -> "other"

None == << >>
Some(v) == << v >>

RulePrimitive(p) == [kind |-> "Primitive", prim |-> p]
RuleCustom(c) == [kind |-> "Custom", custom |-> c]
RuleAmbiguous(name, actions, weights) ==
  [kind |-> "Ambiguous", name |-> name, actions |-> actions, weights |-> weights]

\* struct Custom { rule: RuleDefinition, actions }
MkCustom(name, max_depth, weight, actions) ==
  [rule    |-> [name |-> name, max_depth |-> max_depth,
                retirement_rule |-> None, weight |-> weight],
   actions |-> actions]

\* Rule::name
RuleName(rule) ==
  CASE rule.kind = "Primitive" -> PrimitiveName(rule.prim)
    [] rule.kind = "Custom"    -> rule.custom.rule.name
    [] rule.kind = "Ambiguous" -> rule.name

\* enum Action { Set(SetAction), Transform(TransformAction) }
ActionSet(s) == [kind |-> "Set", set |-> s]
ActionTransform(loops, rule) == [kind |-> "Transform", loops |-> loops, rule |-> rule]

TransformationLoop(count, transform) == [count |-> count, transform |-> transform]

(***************************************************************************)
(* TransformAction::iter and TransformActionIter::next (lib.rs 428-458)     *)
(***************************************************************************)
\* K applied to the value of v, with v computed once (sequencing of two steps)
Bind(v, K(_)) == CHOOSE y \in { K(x) : x \in {v} } : TRUE

RECURSIVE ScanSeedFirst(_, _, _)
\* a scan that yields the state before it multiplies
ScanSeedFirst(state, transform, count) ==
  IF count = 0 THEN << >>
  ELSE << state >> \o ScanSeedFirst(Mul(state, transform), transform, count - 1)

RECURSIVE Scan(_, _, _)
\* (1..=count).scan(tx, |state, _| { *state *= transform; Some(*state) })
Scan(state, transform, count) ==
  IF count = 0 THEN << >>
  ELSE LET s == Mul(state, transform)
       IN  << s >> \o Scan(s, transform, count - 1)

RECURSIVE PrefixEach(_, _, _)
\* the tuples of `rest`, each with `head` put in front, in the order of `rest`
PrefixEach(head, rest, k) ==
  IF k > Len(rest) THEN << >>
  ELSE << << head >> \o rest[k] >> \o PrefixEach(head, rest, k + 1)

RECURSIVE MultiCartesianProduct(_)
RECURSIVE ProductFrom(_, _, _)
ProductFrom(first, rest, i) ==
  IF i > Len(first) THEN << >>
  ELSE PrefixEach(first[i], rest, 1) \o ProductFrom(first, rest, i + 1)

\* itertools multi_cartesian_product of a non-empty list of sequences:
\* the last sequence varies fastest
MultiCartesianProduct(seqs) ==
  IF Len(seqs) = 0 THEN << << >> >>
  ELSE ProductFrom(Head(seqs), MultiCartesianProduct(Tail(seqs)), 1)

RECURSIVE Fold1From(_, _, _)
Fold1From(acc, txs, i) ==
  IF i > Len(txs) THEN acc ELSE Fold1From(Mul(acc, txs[i]), txs, i + 1)

\* txs.into_iter().fold1(|acc, tx| acc * tx), txs non-empty
Fold1(txs) == Fold1From(txs[1], txs, 2)

\* tuples in which the incoming transform seeds the first loop only
ActionTuplesSeedFirstLoop(action, tx) ==
  IF Len(action.loops) = 0 THEN << << tx >> >>
  ELSE MultiCartesianProduct(
         [i \in 1..Len(action.loops) |->
            Scan(IF i = 1 THEN tx ELSE DefaultTransform,
                 action.loops[i].transform, action.loops[i].count)])

\* TransformAction::iter: the Vec<Transform> tuples the boxed iterator holds
ActionTuples(action, tx) ==
  IF Len(action.loops) = 0 THEN << << tx >> >>
  ELSE MultiCartesianProduct(
         [i \in 1..Len(action.loops) |->
            Scan(tx, action.loops[i].transform, action.loops[i].count)])

\* an iterator that forgets the incoming transform when there are no loops
TransformActionIterFromIdentity(action, tx) ==
  IF Len(action.loops) = 0 THEN << DefaultTransform >>
  ELSE Bind(ActionTuples(action, tx),
            LAMBDA tuples : [k \in 1..Len(tuples) |-> Fold1(tuples[k])])

\* the whole sequence TransformActionIter yields for action.iter(tx)
TransformActionIter(action, tx) ==
  Bind(ActionTuples(action, tx),
       LAMBDA tuples : [k \in 1..Len(tuples) |-> Fold1(tuples[k])])

(***************************************************************************)
(* The random source.  The caller hands the evaluator a rand::Rng; the      *)
(* model's generator is a deterministic state machine over 0..7 (a full     *)
(* period congruential generator), so a seed fixes the whole stream.        *)
(***************************************************************************)
Seeds == {0, 1}

RngNext(s) == (5 * s + 3) % 8

RECURSIVE SumSeq(_, _)
SumSeq(ws, i) == IF i > Len(ws) THEN 0 ELSE ws[i] + SumSeq(ws, i + 1)

RECURSIVE PickIndex(_, _, _, _)
\* the first index whose cumulative weight exceeds u
PickIndex(ws, u, i, acc) ==
  IF i >= Len(ws) \/ u < acc + ws[i] THEN i ELSE PickIndex(ws, u, i + 1, acc + ws[i])

\* a sample that leaves the generator where it was
SampleStale(rng, weights) ==
  LET s == RngNext(rng)
  IN  [index |-> PickIndex(weights, s % SumSeq(weights, 1), 1, 0), rng |-> rng]

\* rand::Rng::sample(rng, &weights): one draw, an index chosen by weight
Sample(rng, weights) ==
  LET s == RngNext(rng)
  IN  [index |-> PickIndex(weights, s % SumSeq(weights, 1), 1, 0), rng |-> s]

(***************************************************************************)
(* Custom::iter, Rule::iter, Context (lib.rs 52-147).                       *)
(* An expansion returns [items, rng, st, picks]: the (Transform, Primitive)  *)
(* pairs collected, the generator's state afterwards, st = "ok", "panic"    *)
(* (Option::unwrap on a missing rule) or "overflow" (the recursion ran out  *)
(* of stack), and the indices sampled at Ambiguous rules, in order.         *)
(* `fuel` is the number of call frames left.                                *)
(***************************************************************************)
Item(tx, prim) == [tx |-> tx, prim |-> prim]

Expansion(items, rng, st, picks) ==
  [items |-> items, rng |-> rng, st |-> st, picks |-> picks]

RECURSIVE FilterTransformUntilSet(_)
\* a filter that ends the action list at its first Set action
FilterTransformUntilSet(actions) ==
  IF Len(actions) = 0 \/ Head(actions).kind = "Set" THEN << >>
  ELSE << Head(actions) >> \o FilterTransformUntilSet(Tail(actions))

\* fn filter: the TransformActions of an action list, Set actions dropped
RECURSIVE FilterTransform(_)
FilterTransform(actions) ==
  IF Len(actions) = 0 THEN << >>
  ELSE IF Head(actions).kind = "Set" THEN FilterTransform(Tail(actions))
       ELSE << Head(actions) >> \o FilterTransform(Tail(actions))

\* self.rule.max_depth == Some(ctx.depth)
DepthReached(custom, depth) == custom.rule.max_depth = Some(depth)

\* Context::descend: the depth handed to the invoked rule
Descend(depth) == depth + 1

RECURSIVE RuleIter(_, _, _, _, _, _)
RECURSIVE CustomIter(_, _, _, _, _, _)
RECURSIVE ActionsFrom(_, _, _, _, _, _, _)
RECURSIVE CandidatesFrom(_, _, _, _, _, _, _)

\* the closure of Custom::iter's flat_map: one TransformAction, expanded and
\* collected into a Vec
ExpandAction(rules, action, tx, depth, rng, fuel) ==
  IF action.rule \notin DOMAIN rules
  THEN Expansion(<< >>, rng, "panic", << >>)
  ELSE CandidatesFrom(rules, rules[action.rule], TransformActionIter(action, tx),
                      1, depth, rng, fuel)

\* action.iter(ctx.tx).flat_map(|tx| rule.iter(ctx.descend(tx), rng))
CandidatesFrom(rules, rule, cands, j, depth, rng, fuel) ==
  IF j > Len(cands) THEN Expansion(<< >>, rng, "ok", << >>)
  ELSE Bind(RuleIter(rules, rule, cands[j], Descend(depth), rng, fuel),
            LAMBDA one :
              IF one.st # "ok" THEN one
              ELSE Bind(CandidatesFrom(rules, rule, cands, j + 1, depth, one.rng, fuel),
                        LAMBDA rest :
                          Expansion(one.items \o rest.items, rest.rng, rest.st,
                                    one.picks \o rest.picks)))

\* Custom::iter driven to its end (what Rule::iter's collect() does)
CustomIter(rules, custom, tx, depth, rng, fuel) ==
  IF DepthReached(custom, depth) THEN Expansion(<< >>, rng, "ok", << >>)
  ELSE ActionsFrom(rules, FilterTransform(custom.actions), 1, tx, depth, rng, fuel)

ActionsFrom(rules, actions, i, tx, depth, rng, fuel) ==
  IF i > Len(actions) THEN Expansion(<< >>, rng, "ok", << >>)
  ELSE Bind(ExpandAction(rules, actions[i], tx, depth, rng, fuel),
            LAMBDA one :
              IF one.st # "ok" THEN one
              ELSE Bind(ActionsFrom(rules, actions, i + 1, tx, depth, one.rng, fuel),
                        LAMBDA rest :
                          Expansion(one.items \o rest.items, rest.rng, rest.st,
                                    one.picks \o rest.picks)))

\* Rule::iter
RuleIter(rules, rule, tx, depth, rng, fuel) ==
  IF fuel = 0 THEN Expansion(<< >>, rng, "overflow", << >>)
  ELSE CASE rule.kind = "Primitive" -> Expansion(<< Item(tx, rule.prim) >>, rng, "ok", << >>)
         [] rule.kind = "Custom" ->
              CustomIter(rules, rule.custom, tx, depth, rng, fuel - 1)
         [] rule.kind = "Ambiguous" ->
              Bind(Sample(rng, rule.weights),
                   LAMBDA d :
                     Bind(CustomIter(rules, rule.actions[d.index], tx, depth, d.rng,
                                     fuel - 1),
                          LAMBDA e : [e EXCEPT !.picks = << d.index >> \o @]))

(***************************************************************************)
(* RuleSet (lib.rs 149-222)                                                 *)
(***************************************************************************)
\* the rules map RuleSet::new collects: (p.name(), Rule::Primitive(p))
NewRules ==
  [n \in {PrimitiveName(p) : p \in Primitives} |->
     RulePrimitive(CHOOSE p \in Primitives : PrimitiveName(p) = n)]

\* the top_level Custom of RuleSet::new
NewTopLevel == MkCustom("Top Level", None, 1, << >>)

\* RuleSet::add_action
AddActionTo(top, action) == [top EXCEPT !.actions = Append(@, action)]

MapInsert(rules, name, rule) ==
  [n \in DOMAIN rules \cup {name} |-> IF n = name THEN rule ELSE rules[n]]

\* rand_distr::WeightedIndex::new(weights) is Ok
WeightsValid(ws) ==
  /\ Len(ws) > 0
  /\ \A i \in 1..Len(ws) : ws[i] >= 0
  /\ SumSeq(ws, 1) > 0

\* RuleSet::push: [st, rules]; st = "panic" when assert_custom or the unwrap
\* of WeightedIndex::new panics
RuleSetPush(rules, rule) ==
  LET name == RuleName(rule)
  IN  IF name \notin DOMAIN rules
      THEN [st |-> "ok", rules |-> MapInsert(rules, name, rule)]
      ELSE LET existing == rules[name]
           IN  IF existing.kind # "Custom" \/ rule.kind # "Custom"
               THEN [st |-> "panic", rules |-> rules]
               ELSE LET actions == << existing.custom, rule.custom >>
                        weights == << existing.custom.rule.weight, rule.custom.rule.weight >>
                    IN  IF ~WeightsValid(weights)
                        THEN [st |-> "panic", rules |-> rules]
                        ELSE [st |-> "ok",
                              rules |-> MapInsert(rules, name,
                                                  RuleAmbiguous(name, actions, weights))]

(***************************************************************************)
(* The parser (parser.rs 71-248) over the lexer's token stream.  A token is *)
(* [t, name, num]: its class, and the part of its slice the parser reads    *)
(* (the rule name of an identifier, the value of a literal).  Whitespace    *)
(* and // comments never reach the parser (logos::skip, lexer.rs 9, 91).    *)
(***************************************************************************)
Tok(t, name, num) == [t |-> t, name |-> name, num |-> num]

TCommentStart == Tok("MultilineCommentStart", "", 0)
TCommentEnd == Tok("MultilineCommentEnd", "", 0)
\* "rule r1"
TRuleDef == Tok("RuleDefinition", "r1", 0)
TInvBox == Tok("RuleInvocation", "box", 0)
TInvR1 == Tok("RuleInvocation", "r1", 0)
TSet == Tok("Set", "", 0)
TMaxDepth == Tok("MaxDepth", "", 0)
TOpen == Tok("BracketOpen", "", 0)
TClose == Tok("BracketClose", "", 0)
TInt2 == Tok("LiteralInteger", "", 2)
TMul == Tok("Multiply", "", 0)
TX == Tok("X", "", 0)
TError == Tok("Error", "", 0)
THue == Tok("Hue", "", 0)
TSat == Tok("Sat", "", 0)
TBrightness == Tok("Brightness", "", 0)
TAlpha == Tok("Alpha", "", 0)
TY == Tok("Y", "", 0)
TRx == Tok("Rx", "", 0)
TRz == Tok("Rz", "", 0)
TS == Tok("S", "", 0)
\* an integer literal whose slice reads n
TInt(n) == Tok("LiteralInteger", "", n)

\* the pieces a source text of the model is made of: every single token, and
\* some runs of tokens that occur in programs
Pieces ==
  { << TCommentStart >>, << TCommentEnd >>, << TRuleDef >>, << TInvBox >>,
    << TInvR1 >>, << TSet >>, << TMaxDepth >>, << TOpen >>, << TClose >>,
    << TInt2 >>, << TMul >>, << TX >>, << TError >>,
    << TOpen, TX, TInt2, TClose >>,
    << TInt2, TMul, TOpen >>,
    << TInt(0), TMul, TOpen >>,
    << TX, TInt2, TClose >>,
    << TRuleDef, TOpen >>,
    << TMaxDepth, TInt2 >>,
    << TSet, TMaxDepth, TInt2 >> }

\* pieces of one source text
MaxPieces == 3

RECURSIVE SourcesOf(_)
\* the concatenations of at most n pieces
SourcesOf(n) ==
  IF n = 0 THEN { << >> }
  ELSE LET shorter == SourcesOf(n - 1)
       IN  shorter \cup { s \o p : s \in shorter, p \in Pieces }

SourceTexts == SourcesOf(MaxPieces)

\* a result of a parsing function: st = "ok" (val is the value), "err" (kind
\* is the ErrorKind) or "panic"; pos is the lexer's position afterwards
POk(val, pos) == [st |-> "ok", val |-> val, pos |-> pos, kind |-> "none"]
PErr(kind, pos) == [st |-> "err", val |-> 0, pos |-> pos, kind |-> kind]
PPanic(pos) == [st |-> "panic", val |-> 0, pos |-> pos, kind |-> "none"]

RECURSIVE NextTok(_, _)
\* fn next: the next token that is not Token::Error
NextTok(src, pos) ==
  IF pos >= Len(src) THEN PErr("UnexpectedEOF", pos)
  ELSE IF src[pos + 1].t = "Error" THEN NextTok(src, pos + 1)
       ELSE POk(src[pos + 1], pos + 1)

\* fn get_number
GetNumber(tok, pos) ==
  IF tok.t \in {"LiteralInteger", "LiteralFloat"} THEN POk(tok.num, pos)
  ELSE PErr("ExpectedNumber", pos)

\* fn next_number
NextNumber(src, pos) ==
  Bind(NextTok(src, pos),
       LAMBDA n : IF n.st # "ok" THEN n ELSE GetNumber(n.val, n.pos))

AttributeTokens ==
  {"X", "Y", "Z", "Rx", "Ry", "Rz", "Hue", "Sat", "Brightness", "Alpha"}

\* one arm of parse_transform's match, applied to tx
ApplyAttribute(tx, t, v) ==
  CASE t = "X" -> Mul(tx, Translation(v, 0, 0))
    [] t = "Y" -> Mul(tx, Translation(0, v, 0))
    [] t = "Z" -> Mul(tx, Translation(0, 0, v))
    [] t = "Rx" -> Mul(tx, RotateX(v))
    [] t = "Ry" -> Mul(tx, RotateY(v))
    [] t = "Rz" -> Mul(tx, RotateZ(v))
    [] t = "Hue" -> [tx EXCEPT !.hue = v]
    [] t = "Sat" -> [tx EXCEPT !.sat = v]
    [] t = "Brightness" -> [tx EXCEPT !.brightness = v]
    [] t = "Alpha" -> [tx EXCEPT !.alpha = v]

\* the Token::S arm, from the token after `s`: the scale, and the lexer behind
\* the numbers consumed.  The second and the third number are read from a
\* clone of the lexer, which replaces the lexer only when both were read.
ParseScale(src, pos) ==
  Bind(NextNumber(src, pos),
       LAMBDA s :
         IF s.st # "ok" THEN s
         ELSE Bind(NextNumber(src, s.pos),
                LAMBDA sy :
                  IF sy.st # "ok" THEN POk(Scale(s.val, s.val, s.val), s.pos)
                  ELSE Bind(NextNumber(src, sy.pos),
                         LAMBDA sz :
                           IF sz.st # "ok" THEN PErr(sz.kind, s.pos)
                           ELSE POk(Scale(s.val, sy.val, sz.val), sz.pos))))

RECURSIVE ParseTransform(_, _, _)
\* fn parse_transform, from the token after the opening bracket
ParseTransform(src, pos, tx) ==
  IF pos >= Len(src) THEN POk(tx, pos)
  ELSE IF src[pos + 1].t = "BracketClose" THEN POk(tx, pos + 1)
  ELSE IF src[pos + 1].t \in AttributeTokens
  THEN Bind(NextNumber(src, pos + 1),
            LAMBDA n :
              IF n.st # "ok" THEN n
              ELSE ParseTransform(src, n.pos, ApplyAttribute(tx, src[pos + 1].t, n.val)))
  ELSE IF src[pos + 1].t = "S"
  THEN Bind(ParseScale(src, pos + 1),
            LAMBDA sc :
              IF sc.st # "ok" THEN sc
              ELSE ParseTransform(src, sc.pos, Mul(tx, sc.val)))
  ELSE PErr("UnexpectedTransformToken", pos + 1)

\* the head of one loop in parse_action_list: the count, and the lexer moved
\* behind the opening bracket
LoopHead(src, tok, pos) ==
  IF tok.t = "BracketOpen" THEN POk(1, pos)
  ELSE IF tok.num < 0 THEN PErr("ExpectedNumber", pos)
  ELSE IF pos >= Len(src) \/ src[pos + 1].t # "Multiply" THEN PPanic(pos)
  ELSE IF pos + 1 >= Len(src) \/ src[pos + 2].t # "BracketOpen" THEN PPanic(pos + 1)
  ELSE POk(tok.num, pos + 2)

RECURSIVE ParseLoops(_, _, _, _)
\* fn parse_action_list, `tok` being the token read last
ParseLoops(src, tok, pos, loops) ==
  IF tok.t \in {"BracketOpen", "LiteralInteger"}
  THEN Bind(LoopHead(src, tok, pos),
         LAMBDA h :
           IF h.st # "ok" THEN h
           ELSE Bind(ParseTransform(src, h.pos, DefaultTransform),
                  LAMBDA tr :
                    IF tr.st # "ok" THEN tr
                    ELSE Bind(NextTok(src, tr.pos),
                           LAMBDA n :
                             IF n.st # "ok" THEN n
                             ELSE ParseLoops(src, n.val, n.pos,
                                    Append(loops, TransformationLoop(h.val, tr.val))))))
  ELSE IF tok.t = "RuleInvocation"
       THEN POk(ActionTransform(loops, tok.name), pos)
       ELSE PErr("ExpectedIdentifier", pos)

ParseActionList(src, tok, pos) == ParseLoops(src, tok, pos, << >>)

RECURSIVE SkipToOpen(_, _)
\* lexer.take_while(|token| !matches!(token, Token::BracketOpen)).count()
SkipToOpen(src, pos) ==
  IF pos >= Len(src) THEN pos
  ELSE IF src[pos + 1].t = "BracketOpen" THEN pos + 1
       ELSE SkipToOpen(src, pos + 1)

RECURSIVE ParseBody(_, _, _, _)
\* the action loop of a rule definition and the assert on the closing bracket;
\* `tok` is the token read last
ParseBody(src, tok, pos, actions) ==
  IF tok.t \in {"BracketOpen", "LiteralInteger", "RuleInvocation"}
  THEN Bind(ParseActionList(src, tok, pos),
         LAMBDA a :
           IF a.st # "ok" THEN a
           ELSE Bind(NextTok(src, a.pos),
                  LAMBDA n :
                    IF n.st # "ok" THEN n
                    ELSE ParseBody(src, n.val, n.pos, Append(actions, a.val))))
  ELSE IF tok.t = "BracketClose" THEN POk(actions, pos)
       ELSE PPanic(pos)

\* the Custom the parser builds for a definition: the modifiers between the
\* name and the bracket are skipped (parser.rs 186-189), so no max depth and
\* the default weight
ParsedCustom(name, actions) == MkCustom(name, None, 1, actions)

\* the Token::RuleDefinition arm up to the push, from the token after the
\* definition token
ParseRuleDefinition(src, name, pos) ==
  Bind(NextTok(src, SkipToOpen(src, pos)),
       LAMBDA n :
         IF n.st # "ok" THEN n
         ELSE Bind(ParseBody(src, n.val, n.pos, << >>),
                LAMBDA b :
                  IF b.st # "ok" THEN b
                  ELSE POk(ParsedCustom(name, b.val), b.pos)))

SetMaxDepth(n) == ActionSet([name |-> "MaxDepth", value |-> n])

\* the Token::Set arm, from the token after `set`
ParseSet(src, pos) ==
  IF pos >= Len(src) THEN PErr("UnexpectedEOF", pos)
  ELSE IF src[pos + 1].t # "MaxDepth" THEN PErr("ExpectedIdentifier", pos + 1)
  ELSE IF pos + 1 >= Len(src) THEN PErr("UnexpectedEOF", pos + 1)
  ELSE IF src[pos + 2].t # "LiteralInteger" \/ src[pos + 2].num < 0
       THEN PErr("ExpectedNumber", pos + 2)
       ELSE POk(SetMaxDepth(src[pos + 2].num), pos + 2)

(***************************************************************************)
(* The programs of the model: the rule definitions and top-level actions    *)
(* a source text contributes, from small sets.                              *)
(***************************************************************************)
CustomNames == {"r1", "r2"}

\* { x 1 }
LoopX1 == TransformationLoop(1, Translation(1, 0, 0))
\* { x 1 h 20 }
LoopX1H20 == TransformationLoop(1, [Translation(1, 0, 0) EXCEPT !.hue = 20])
\* 2 * { x 2 }
Loop2X2 == TransformationLoop(2, Translation(2, 0, 0))
\* 2 * { y 2 }
Loop2Y2 == TransformationLoop(2, Translation(0, 2, 0))

Invoke(name) == ActionTransform(<< >>, name)

\* rule r1 { box }
DefBox == MkCustom("r1", None, 1, << Invoke("box") >>)
\* rule r1 maxdepth 4 { box { x 1 h 20 } r1 }
DefRecMd4 == MkCustom("r1", Some(4), 1,
                      << Invoke("box"), ActionTransform(<< LoopX1H20 >>, "r1") >>)
\* rule r1 { box { x 1 h 20 } r1 }
DefRec == MkCustom("r1", None, 1,
                   << Invoke("box"), ActionTransform(<< LoopX1H20 >>, "r1") >>)
\* rule r1 w 2 { sphere }
DefSphereW2 == MkCustom("r1", None, 2, << Invoke("sphere") >>)
Defs == {DefBox, DefRecMd4, DefRec, DefSphereW2}

TopActions ==
  { Invoke("r1"),
    ActionTransform(<< LoopX1 >>, "r1"),
    ActionTransform(<< Loop2X2, Loop2Y2 >>, "box"),
    Invoke("r2") }

(***************************************************************************)
(* State                                                                    *)
(***************************************************************************)
VARIABLES
  rules,      \* RuleSet.rules
  top_level,  \* RuleSet.top_level
  phase,      \* "parsing": the table is being built; "ready": rules() returned
              \* Ok; "error": rules() returned Err; "panicked": the parse panicked
  pushed,     \* history: per custom name, the definitions pushed, in order
  runs,       \* the RuleSetIterators, one per evaluation run
  alone,      \* history: per run, what the run yields when it runs alone on a
              \* freshly built table (recorded when the run is created)
  iter,       \* a TransformActionIter driven on its own
  lexer       \* the parser's lexer: the source's tokens and the position in them

vars == << rules, top_level, phase, pushed, runs, alone, iter, lexer >>

Runs == {1, 2}

IdleRun == [st |-> "idle", seed |-> 0, rng |-> 0, idx |-> 1,
            frontiter |-> << >>, out |-> << >>, picks |-> << >>]

IdleIter == [st |-> "idle", action |-> Invoke("box"), tx |-> DefaultTransform,
             tuples |-> << >>, got |-> << >>]

NoSource == [src |-> << >>, pos |-> 0, is_comment |-> FALSE, kind |-> "none"]

\* RuleSet::new, and nothing evaluated yet
InitTable ==
  /\ rules = NewRules
  /\ top_level = NewTopLevel
  /\ phase = "parsing"
  /\ pushed = [n \in CustomNames |-> << >>]
  /\ runs = [r \in Runs |-> IdleRun]
  /\ alone = [r \in Runs |-> IdleRun]
  /\ iter = IdleIter

Init == InitTable /\ lexer = NoSource

RECURSIVE CountDefs(_)
CountDefs(names) ==
  IF names = {} THEN 0
  ELSE LET n == CHOOSE x \in names : TRUE
       IN  Len(pushed[n]) + CountDefs(names \ {n})

(***************************************************************************)
(* Building the table: what build_rules does with the statements of a       *)
(* source, as calls of RuleSet::push and RuleSet::add_action.               *)
(***************************************************************************)
\* build_rules reaches a rule definition and pushes it (parser.rs 206)
Push(c) ==
  /\ phase = "parsing"
  /\ CountDefs(CustomNames) < MaxDefs
  /\ LET p == RuleSetPush(rules, RuleCustom(c))
     IN  /\ rules' = p.rules
         /\ phase' = IF p.st = "ok" THEN "parsing" ELSE "panicked"
  /\ pushed' = [pushed EXCEPT ![c.rule.name] = Append(@, c)]
  /\ UNCHANGED << top_level, runs, alone, iter, lexer >>

\* build_rules reaches a top-level action (parser.rs 227-239)
AddAction(a) ==
  /\ phase = "parsing"
  /\ Len(top_level.actions) < MaxTop
  /\ top_level' = AddActionTo(top_level, a)
  /\ UNCHANGED << rules, phase, pushed, runs, alone, iter, lexer >>

\* build_rules returns Ok(rules) at the end of the source
Finish ==
  /\ phase = "parsing"
  /\ phase' = "ready"
  /\ UNCHANGED << rules, top_level, pushed, runs, alone, iter, lexer >>

(***************************************************************************)
(* Evaluation: RuleSet::iter, RuleSetIterator (lib.rs 219-249)              *)
(***************************************************************************)
\* RuleSetIterator::new: rules.top_level.iter(Context::new(&rules.rules), rng)
NewRun(top, seed) ==
  [st |-> IF DepthReached(top, 0) THEN "done" ELSE "running",
   seed |-> seed, rng |-> seed, idx |-> 1,
   frontiter |-> << >>, out |-> << >>, picks |-> << >>]

RECURSIVE Pull(_, _, _, _, _)
\* the flat_map of the top-level Custom::iter, asked for its next item with an
\* empty front buffer: expand top-level actions until one yields something
Pull(rs, actions, idx, rng, picks) ==
  IF idx > Len(actions)
  THEN [st |-> "done", idx |-> idx, rng |-> rng, buf |-> << >>, picks |-> picks]
  ELSE Bind(ExpandAction(rs, actions[idx], DefaultTransform, 0, rng, MaxStack),
            LAMBDA e :
              IF e.st # "ok"
              THEN [st |-> e.st, idx |-> idx, rng |-> e.rng, buf |-> << >>,
                    picks |-> picks \o e.picks]
              ELSE IF Len(e.items) = 0
                   THEN Pull(rs, actions, idx + 1, e.rng, picks \o e.picks)
                   ELSE [st |-> "running", idx |-> idx + 1, rng |-> e.rng,
                         buf |-> e.items, picks |-> picks \o e.picks])

\* RuleSetIterator::next on a run; the item it returns is appended to out
NextOf(rs, top, run) ==
  IF Len(run.frontiter) > 0
  THEN [run EXCEPT !.out = Append(@, Head(run.frontiter)),
                   !.frontiter = Tail(@)]
  ELSE Bind(Pull(rs, FilterTransform(top.actions), run.idx, run.rng, run.picks),
            LAMBDA p :
              IF p.st = "running"
              THEN [run EXCEPT !.idx = p.idx, !.rng = p.rng, !.picks = p.picks,
                               !.out = Append(@, Head(p.buf)),
                               !.frontiter = Tail(p.buf)]
              ELSE [run EXCEPT !.st = IF p.st = "panic" THEN "panicked" ELSE p.st,
                               !.idx = p.idx, !.rng = p.rng, !.picks = p.picks])

RECURSIVE PushAll(_, _, _)
PushAll(rs, customs, i) ==
  IF i > Len(customs) THEN rs
  ELSE PushAll(RuleSetPush(rs, RuleCustom(customs[i])).rules, customs, i + 1)

RECURSIVE PushNames(_, _)
PushNames(rs, names) ==
  IF names = {} THEN rs
  ELSE LET n == CHOOSE x \in names : TRUE
       IN  PushNames(PushAll(rs, pushed[n], 1), names \ {n})

\* the table a fresh parse of the same definitions builds
FreshRules == PushNames(NewRules, CustomNames)

RECURSIVE RunToEnd(_, _, _)
RunToEnd(rs, top, run) ==
  IF run.st # "running" THEN run ELSE RunToEnd(rs, top, NextOf(rs, top, run))

\* the run with this seed, alone on table rs, driven to its end
SoloRun(rs, top, seed) == RunToEnd(rs, top, NewRun(top, seed))

\* an iterator whose generator is seeded from ambient state, not from `seed`
IterAmbientRng(r, seed) ==
  /\ phase = "ready"
  /\ runs[r].st = "idle"
  /\ \A q \in Runs : q < r => runs[q].st # "idle"
  /\ runs' = [runs EXCEPT ![r] = [NewRun(top_level, seed) EXCEPT !.rng = r]]
  /\ alone' = [alone EXCEPT ![r] = SoloRun(FreshRules, top_level, seed)]
  /\ UNCHANGED << rules, top_level, phase, pushed, iter, lexer >>

\* RuleSet::iter with a generator seeded with `seed`; the runs are numbered in
\* the order of their creation
Iter(r, seed) ==
  /\ phase = "ready"
  /\ runs[r].st = "idle"
  /\ \A q \in Runs : q < r => runs[q].st # "idle"
  /\ runs' = [runs EXCEPT ![r] = NewRun(top_level, seed)]
  /\ alone' = [alone EXCEPT ![r] = SoloRun(FreshRules, top_level, seed)]
  /\ UNCHANGED << rules, top_level, phase, pushed, iter, lexer >>

\* next() with one generator shared by every run (kept in run 1)
NextItemSharedRng(r) ==
  /\ phase = "ready"
  /\ runs[r].st = "running"
  /\ LET new == NextOf(rules, top_level, [runs[r] EXCEPT !.rng = runs[1].rng])
     IN  runs' = [q \in Runs |->
                    IF q = r THEN new
                    ELSE IF q = 1 THEN [runs[1] EXCEPT !.rng = new.rng]
                    ELSE runs[q]]
  /\ UNCHANGED << rules, top_level, phase, pushed, alone, iter, lexer >>

\* the consumer calls next() on run r
NextItem(r) ==
  /\ phase = "ready"
  /\ runs[r].st = "running"
  /\ runs' = [runs EXCEPT ![r] = NextOf(rules, top_level, runs[r])]
  /\ UNCHANGED << rules, top_level, phase, pushed, alone, iter, lexer >>

Next ==
  \/ \E c \in Defs : Push(c)
  \/ \E a \in TopActions : AddAction(a)
  \/ Finish
  \/ \E r \in Runs, seed \in Seeds : Iter(r, seed)
  \/ \E r \in Runs : NextItem(r)

Spec == Init /\ [][Next]_vars

(***************************************************************************)
(* Tables whose rules declare a max depth, evaluated by one run.            *)
(***************************************************************************)
\* rule r2 { r1 r1 r1 }
DefR2Thrice == MkCustom("r2", None, 1, << Invoke("r1"), Invoke("r1"), Invoke("r1") >>)
\* rule r1 maxdepth 1 { box r1 }
DefRecMd1 == MkCustom("r1", Some(1), 1, << Invoke("box"), Invoke("r1") >>)
\* rule r1 maxdepth 2 { box }
DefMd2 == MkCustom("r1", Some(2), 1, << Invoke("box") >>)
\* rule r1 maxdepth 3 { box r1 r1 }
DefRecMd3Twice ==
  MkCustom("r1", Some(3), 1, << Invoke("box"), Invoke("r1"), Invoke("r1") >>)

DepthDefs == {DefR2Thrice, DefRecMd1, DefMd2, DefRecMd3Twice}

DepthTopActions ==
  { Invoke("r1"), Invoke("r2"), ActionTransform(<< Loop2X2 >>, "r1") }

NextDepth ==
  \/ \E c \in DepthDefs : Push(c)
  \/ \E a \in DepthTopActions : AddAction(a)
  \/ Finish
  \/ \E seed \in Seeds : Iter(1, seed)
  \/ NextItem(1)

SpecDepth == Init /\ [][NextDepth]_vars

(***************************************************************************)
(* Tables with nested rules and Set actions, evaluated by one run.          *)
(***************************************************************************)
\* rule r2 { box r1 sphere }
DefR2Nested == MkCustom("r2", None, 1, << Invoke("box"), Invoke("r1"), Invoke("sphere") >>)
\* rule r1 { { x 1 } dot grid }, with a Set action at the head of its list
DefR1WithSet ==
  MkCustom("r1", None, 1,
           << SetMaxDepth(1), ActionTransform(<< LoopX1 >>, "dot"), Invoke("grid") >>)
\* rule r1 { line }
DefR1Line == MkCustom("r1", None, 1, << Invoke("line") >>)

OrderDefs == {DefR2Nested, DefR1WithSet, DefR1Line}

OrderTopActions ==
  { SetMaxDepth(1), Invoke("r2"), ActionTransform(<< Loop2X2 >>, "r1"), Invoke("mesh") }

NextOrder ==
  \/ \E c \in OrderDefs : Push(c)
  \/ \E a \in OrderTopActions : AddAction(a)
  \/ Finish
  \/ \E seed \in Seeds : Iter(1, seed)
  \/ NextItem(1)

SpecOrder == Init /\ [][NextOrder]_vars

(***************************************************************************)
(* TransformAction::iter on its own: an action and an incoming transform    *)
(* from small sets, then next() until the iterator ends.                    *)
(***************************************************************************)
\* loops of one action
MaxLoops == 2
\* count of one loop
MaxCount == 2

LoopTransforms == {Translation(2, 0, 0), Translation(0, 2, 0), Hsv(72, 1, 1)}

StartTransforms == {DefaultTransform, Translation(1, 0, 0)}

LoopChoices ==
  {TransformationLoop(c, t) : c \in 0..MaxCount, t \in LoopTransforms}

\* "6 * { h 72 } box" and "{ x 2 } box" (tests::hue_tx, tests::basic_tx)
SixHue72Box == << TInt(6), TMul, TOpen, THue, TInt(72), TClose, TInvBox >>
X2Box == << TOpen, TX, TInt(2), TClose, TInvBox >>

\* the TransformAction the parser builds for a source that is one action
ParsedAction(src) == ParseActionList(src, src[1], 1).val

ExampleActions == {ParsedAction(SixHue72Box), ParsedAction(X2Box)}

LoopLists ==
  UNION {[1..n -> LoopChoices] : n \in 0..MaxLoops}
    \cup {a.loops : a \in ExampleActions}

\* action.iter(tx)
ActionIter(loops, tx) ==
  /\ iter.st = "idle"
  /\ iter' = [st |-> "running", action |-> ActionTransform(loops, ""), tx |-> tx,
              tuples |-> ActionTuples(ActionTransform(loops, ""), tx),
              got |-> << >>]
  /\ UNCHANGED << rules, top_level, phase, pushed, runs, alone, lexer >>

\* TransformActionIter::next: the next tuple, folded
IterNext ==
  /\ iter.st = "running"
  /\ iter' = IF Len(iter.tuples) = 0
             THEN [iter EXCEPT !.st = "ended"]
             ELSE [iter EXCEPT !.got = Append(@, Fold1(Head(iter.tuples))),
                               !.tuples = Tail(@)]
  /\ UNCHANGED << rules, top_level, phase, pushed, runs, alone, lexer >>

NextIter ==
  \/ \E loops \in LoopLists, tx \in StartTransforms : ActionIter(loops, tx)
  \/ IterNext

SpecIter == Init /\ [][NextIter]_vars

(***************************************************************************)
(* Transform composition on its own: two operands from a set of transforms, *)
(* then lhs * rhs.                                                          *)
(***************************************************************************)
Operands ==
  { DefaultTransform, Translation(1, 2, 3), Translation(-2, 0, 1), Scale(3, 1, 5),
    RotateZ(90), RotateX(180), RotateY(270), Hsv(72, 2, 3),
    [DefaultTransform EXCEPT !.alpha = 2],
    Mul(Translation(1, 0, 0), RotateZ(90)),
    Mul(Scale(3, 3, 3), [Hsv(300, 0, 2) EXCEPT !.alpha = 3]) }

\* the two operands of one product
TakeOperands(a, b) ==
  /\ iter.st = "idle"
  /\ iter' = [st |-> "operands", lhs |-> a, rhs |-> b, out |-> a]
  /\ UNCHANGED << rules, top_level, phase, pushed, runs, alone, lexer >>

\* lhs * rhs
MulStep ==
  /\ iter.st = "operands"
  /\ iter' = [iter EXCEPT !.st = "product", !.out = Mul(iter.lhs, iter.rhs)]
  /\ UNCHANGED << rules, top_level, phase, pushed, runs, alone, lexer >>

NextMul ==
  \/ \E a, b \in Operands : TakeOperands(a, b)
  \/ MulStep

SpecMul == Init /\ [][NextMul]_vars

(***************************************************************************)
(* parse_transform on its own: the tokens of a transform block behind its   *)
(* opening bracket, then the call.                                          *)
(***************************************************************************)
\* the attributes of a block: a keyword and its numbers, well formed or not
BlockEntries ==
  { << TX, TInt(1) >>, << TY, TInt(2) >>, << TRz, TInt(90) >>, << TRx, TInt(180) >>,
    << TS, TInt(3) >>, << TS, TInt(3), TInt(5), TInt(1) >>, << TS, TInt(3), TInt(5) >>,
    << THue, TInt(72) >>, << TSat, TInt(2) >>, << TBrightness, TInt(3) >>,
    << TAlpha, TInt(2) >>, << THue >>, << TError >> }

\* attributes of one block
MaxAttrs == 2

RECURSIVE Flat(_)
Flat(seqs) == IF Len(seqs) = 0 THEN << >> ELSE Head(seqs) \o Flat(Tail(seqs))

\* the lexer stands behind the opening bracket of a block with these entries
OpenBlock(entries, closed) ==
  /\ iter.st = "idle"
  /\ lexer.src = << >>
  /\ lexer' = [lexer EXCEPT
                 !.src = Flat(entries) \o (IF closed THEN << TClose >> ELSE << >>)]
  /\ iter' = [st |-> "block", entries |-> entries, closed |-> closed,
              res |-> POk(DefaultTransform, 0)]
  /\ UNCHANGED << rules, top_level, phase, pushed, runs, alone >>

\* parse_transform(lexer)
ParseBlock ==
  /\ iter.st = "block"
  /\ LET res == ParseTransform(lexer.src, 0, DefaultTransform)
     IN  /\ iter' = [iter EXCEPT !.st = "parsed", !.res = res]
         /\ lexer' = [lexer EXCEPT !.pos = res.pos, !.kind = res.kind]
  /\ UNCHANGED << rules, top_level, phase, pushed, runs, alone >>

NextBlock ==
  \/ \E entries \in UNION {[1..n -> BlockEntries] : n \in 0..MaxAttrs},
         closed \in BOOLEAN : OpenBlock(entries, closed)
  \/ ParseBlock

SpecBlock == Init /\ [][NextBlock]_vars

(***************************************************************************)
(* Parser::rules as a function of the source: build_rules run to its end,   *)
(* [phase, rules, top_level, kind] being what rules() hands back.           *)
(***************************************************************************)
RECURSIVE BuildRules(_, _, _, _, _)
BuildRules(src, pos, is_comment, rs, top) ==
  IF pos >= Len(src)
  THEN [phase |-> "ready", rules |-> rs, top_level |-> top, kind |-> "none"]
  ELSE IF is_comment /\ src[pos + 1].t # "MultilineCommentEnd"
  THEN BuildRules(src, pos + 1, is_comment, rs, top)
  ELSE IF src[pos + 1].t = "MultilineCommentStart"
  THEN BuildRules(src, pos + 1, TRUE, rs, top)
  ELSE IF src[pos + 1].t = "MultilineCommentEnd"
  THEN BuildRules(src, pos + 1, FALSE, rs, top)
  ELSE IF src[pos + 1].t = "Error"
  THEN BuildRules(src, pos + 1, is_comment, rs, top)
  ELSE IF src[pos + 1].t = "RuleInvocation"
  THEN BuildRules(src, pos + 1, is_comment, rs,
                  AddActionTo(top, ActionTransform(<< >>, src[pos + 1].name)))
  ELSE IF src[pos + 1].t \in {"RuleDefinition", "Set", "LiteralInteger", "BracketOpen"}
  THEN Bind(CASE src[pos + 1].t = "RuleDefinition" ->
                   ParseRuleDefinition(src, src[pos + 1].name, pos + 1)
              [] src[pos + 1].t = "Set" -> ParseSet(src, pos + 1)
              [] OTHER -> ParseActionList(src, src[pos + 1], pos + 1),
            LAMBDA res :
              IF res.st # "ok"
              THEN [phase |-> IF res.st = "panic" THEN "panicked" ELSE "error",
                    rules |-> rs, top_level |-> top, kind |-> res.kind]
              ELSE IF src[pos + 1].t # "RuleDefinition"
              THEN BuildRules(src, res.pos, is_comment, rs, AddActionTo(top, res.val))
              ELSE Bind(RuleSetPush(rs, RuleCustom(res.val)),
                        LAMBDA p :
                          IF p.st # "ok"
                          THEN [phase |-> "panicked", rules |-> p.rules,
                                top_level |-> top, kind |-> "none"]
                          ELSE BuildRules(src, res.pos, is_comment, p.rules, top)))
  ELSE [phase |-> "error", rules |-> rs, top_level |-> top,
        kind |-> "UnexpectedTopLevelToken"]

\* Parser::new(Lexer::new(source)).rules()
ParserRules(src) == BuildRules(src, 0, FALSE, NewRules, NewTopLevel)

(***************************************************************************)
(* Parser::rules / build_rules: one action per arm of the loop's match.     *)
(***************************************************************************)
InitParse ==
  /\ InitTable
  /\ lexer \in {[src |-> s, pos |-> 0, is_comment |-> FALSE, kind |-> "none"] :
                  s \in SourceTexts}

\* the loop of build_rules has a token to look at
AtToken == phase = "parsing" /\ lexer.pos < Len(lexer.src)

Cur == lexer.src[lexer.pos + 1]

\* the lexer moved to pos
LexerAt(pos) == [lexer EXCEPT !.pos = pos]

\* Err(kind) leaves build_rules: rules() returns Error { lexer, kind }
FailWith(res) ==
  /\ phase' = IF res.st = "panic" THEN "panicked" ELSE "error"
  /\ lexer' = [lexer EXCEPT !.pos = res.pos, !.kind = res.kind]
  /\ UNCHANGED << rules, top_level, pushed, runs, alone, iter >>

\* the loop ends: Ok(rules)
ParseEnd ==
  /\ phase = "parsing"
  /\ lexer.pos >= Len(lexer.src)
  /\ phase' = "ready"
  /\ UNCHANGED << rules, top_level, pushed, runs, alone, iter, lexer >>

\* is_comment && !MultilineCommentEnd: continue
SkipInComment ==
  /\ AtToken
  /\ lexer.is_comment /\ Cur.t # "MultilineCommentEnd"
  /\ lexer' = LexerAt(lexer.pos + 1)
  /\ UNCHANGED << rules, top_level, phase, pushed, runs, alone, iter >>

InMatch == AtToken /\ ~(lexer.is_comment /\ Cur.t # "MultilineCommentEnd")

CommentStart ==
  /\ InMatch /\ Cur.t = "MultilineCommentStart"
  /\ lexer' = [lexer EXCEPT !.pos = @ + 1, !.is_comment = TRUE]
  /\ UNCHANGED << rules, top_level, phase, pushed, runs, alone, iter >>

CommentEnd ==
  /\ InMatch /\ Cur.t = "MultilineCommentEnd"
  /\ lexer' = [lexer EXCEPT !.pos = @ + 1, !.is_comment = FALSE]
  /\ UNCHANGED << rules, top_level, phase, pushed, runs, alone, iter >>

StmtRuleDefinition ==
  /\ InMatch /\ Cur.t = "RuleDefinition"
  /\ LET d == ParseRuleDefinition(lexer.src, Cur.name, lexer.pos + 1)
     IN  IF d.st # "ok" THEN FailWith(d)
         ELSE LET p == RuleSetPush(rules, RuleCustom(d.val))
              IN  /\ rules' = p.rules
                  /\ phase' = IF p.st = "ok" THEN "parsing" ELSE "panicked"
                  /\ pushed' = [pushed EXCEPT ![d.val.rule.name] = Append(@, d.val)]
                  /\ lexer' = LexerAt(d.pos)
                  /\ UNCHANGED << top_level, runs, alone, iter >>

StmtSet ==
  /\ InMatch /\ Cur.t = "Set"
  /\ LET s == ParseSet(lexer.src, lexer.pos + 1)
     IN  IF s.st # "ok" THEN FailWith(s)
         ELSE /\ top_level' = AddActionTo(top_level, s.val)
              /\ lexer' = LexerAt(s.pos)
              /\ UNCHANGED << rules, phase, pushed, runs, alone, iter >>

StmtInvocation ==
  /\ InMatch /\ Cur.t = "RuleInvocation"
  /\ top_level' = AddActionTo(top_level, ActionTransform(<< >>, Cur.name))
  /\ lexer' = LexerAt(lexer.pos + 1)
  /\ UNCHANGED << rules, phase, pushed, runs, alone, iter >>

StmtActionList ==
  /\ InMatch /\ Cur.t \in {"LiteralInteger", "BracketOpen"}
  /\ LET a == ParseActionList(lexer.src, Cur, lexer.pos + 1)
     IN  IF a.st # "ok" THEN FailWith(a)
         ELSE /\ top_level' = AddActionTo(top_level, a.val)
              /\ lexer' = LexerAt(a.pos)
              /\ UNCHANGED << rules, phase, pushed, runs, alone, iter >>

StmtErrorToken ==
  /\ InMatch /\ Cur.t = "Error"
  /\ lexer' = LexerAt(lexer.pos + 1)
  /\ UNCHANGED << rules, top_level, phase, pushed, runs, alone, iter >>

StmtUnexpected ==
  /\ InMatch
  /\ Cur.t \notin {"MultilineCommentStart", "MultilineCommentEnd", "RuleDefinition",
                   "Set", "RuleInvocation", "LiteralInteger", "BracketOpen", "Error"}
  /\ FailWith(PErr("UnexpectedTopLevelToken", lexer.pos + 1))

NextParse ==
  \/ ParseEnd
  \/ SkipInComment
  \/ CommentStart
  \/ CommentEnd
  \/ StmtRuleDefinition
  \/ StmtSet
  \/ StmtInvocation
  \/ StmtActionList
  \/ StmtErrorToken
  \/ StmtUnexpected

SpecParse == InitParse /\ [][NextParse]_vars

(***************************************************************************)
(* Properties                                                               *)
(***************************************************************************)
\* the names the specification calls canonical, one per Primitive
CanonicalName(p) ==
  CASE p = "Box"      -> "box"
    [] p = "Sphere"   -> "sphere"
    [] p = "Dot"      -> "dot"
    [] p = "Grid"     -> "grid"
    [] p = "Cylinder" -> "cylinder"
    [] p = "Line"     -> "line"
    [] p = "Mesh"     -> "mesh"
    [] p = "Template" -> "template"
    [] p = "Other"    -> "other"

RECURSIVE TermOf(_, _, _)
\* tx * T * ... * T, with k factors T
TermOf(tx, T, k) == IF k = 0 THEN tx ELSE Mul(TermOf(tx, T, k - 1), T)

RECURSIVE CountsProduct(_, _)
\* the product of the counts of loops i..n
CountsProduct(loops, i) ==
  IF i > Len(loops) THEN 1 ELSE loops[i].count * CountsProduct(loops, i + 1)

\* the index (1..count) loop i has in the k-th tuple when the last loop varies
\* fastest
IndexAt(loops, k, i) ==
  (((k - 1) \div CountsProduct(loops, i + 1)) % loops[i].count) + 1

RECURSIVE ExpectedFrom(_, _, _, _, _)
ExpectedFrom(acc, loops, tx, k, i) ==
  IF i > Len(loops) THEN acc
  ELSE ExpectedFrom(Mul(acc, TermOf(tx, loops[i].transform, IndexAt(loops, k, i))),
                    loops, tx, k, i + 1)

\* the k-th candidate of an action with at least one loop
ExpectedCandidate(loops, tx, k) ==
  ExpectedFrom(TermOf(tx, loops[1].transform, IndexAt(loops, k, 1)), loops, tx, k, 2)

\* C1: an action with loops of counts c1..cn (n >= 1) yields exactly c1*...*cn
\* candidates, in cartesian-product order with the last loop varying fastest;
\* from the identity, 2 * {x 2} 2 * {y 2} yields the translations (2,2,0),
\* (2,4,0), (4,2,0), (4,4,0) in that order, and then the iterator ends.
C1_CartesianLoops ==
  (iter.st # "idle" /\ Len(iter.action.loops) >= 1) =>
    /\ Len(iter.got) + Len(iter.tuples) = CountsProduct(iter.action.loops, 1)
    /\ iter.st = "ended" => Len(iter.got) = CountsProduct(iter.action.loops, 1)
    /\ \A k \in 1..Len(iter.got) :
         iter.got[k] = ExpectedCandidate(iter.action.loops, iter.tx, k)
    /\ (/\ iter.action.loops = << Loop2X2, Loop2Y2 >>
        /\ iter.tx = DefaultTransform
        /\ iter.st = "ended")
       => iter.got = << Translation(2, 2, 0), Translation(2, 4, 0),
                        Translation(4, 2, 0), Translation(4, 4, 0) >>

C1_Witness ==
  /\ iter.st = "ended"
  /\ iter.action.loops = << Loop2X2, Loop2Y2 >>
  /\ iter.tx = DefaultTransform
  /\ Len(iter.got) = 4

Ended(r) == runs[r].st \in {"done", "panicked", "overflow"}

IsPrefix(a, b) == Len(a) <= Len(b) /\ \A i \in 1..Len(a) : a[i] = b[i]

C4_UnknownRuleIsError ==
  \A r \in Runs :
    (/\ phase = "ready"
     /\ runs[r].st \notin {"idle", "running"}
     /\ runs[r].idx <= Len(FilterTransform(top_level.actions))
     /\ FilterTransform(top_level.actions)[runs[r].idx].rule \notin DOMAIN rules)
    => runs[r].st = "error"

\* the table's entry for name n holds the definitions pushed under n, in order
EntryHolds(n) ==
  CASE Len(pushed[n]) = 0 -> n \notin DOMAIN rules
    [] Len(pushed[n]) = 1 -> n \in DOMAIN rules /\ rules[n] = RuleCustom(pushed[n][1])
    [] OTHER ->
         /\ n \in DOMAIN rules
         /\ rules[n].kind = "Ambiguous"
         /\ rules[n].actions = pushed[n]
         /\ rules[n].weights = [i \in 1..Len(pushed[n]) |-> pushed[n][i].rule.weight]

\* C5: whatever definitions are pushed, pushing never crashes, and each name's
\* entry holds every definition pushed under it, in order, unless the parse
\* ended with a DuplicateRuleOverflow error.
C5_PushNeverCrashes ==
  /\ phase # "panicked"
  /\ phase # "error" => \A n \in CustomNames : EntryHolds(n)

\* C7: the table holds exactly nine Primitive entries, keyed by the canonical
\* names, and a bare invocation of a canonical name yields that kind.
C7_NinePrimitives ==
  /\ Cardinality({n \in DOMAIN rules : rules[n].kind = "Primitive"}) = 9
  /\ \A p \in Primitives :
       /\ CanonicalName(p) \in DOMAIN rules
       /\ rules[CanonicalName(p)] = RulePrimitive(p)
       /\ ExpandAction(rules, Invoke(CanonicalName(p)), DefaultTransform, 0, 0, MaxStack)
            = Expansion(<< Item(DefaultTransform, p) >>, 0, "ok", << >>)

\* C8: for a self-recursive rule without max-depth whose body yields box before
\* it recurses, invoked from the top level, the run does not end before the
\* first (Transform, Primitive) pair has been delivered.
C8_FirstResultDelivered ==
  \A r \in Runs :
    (/\ phase = "ready"
     /\ "r1" \in DOMAIN rules
     /\ rules["r1"] = RuleCustom(DefRec)
     /\ top_level.actions = << Invoke("r1") >>
     /\ Ended(r))
    => Len(runs[r].out) >= 1

RunMatchesSolo(r) ==
  /\ IsPrefix(runs[r].out, alone[r].out)
  /\ Ended(r) => (runs[r].out = alone[r].out /\ runs[r].st = alone[r].st)

KindOf(name) == CHOOSE p \in Primitives : PrimitiveName(p) = name

\* a Custom whose body is one bare primitive invocation
BarePrimitiveBody(c) ==
  /\ Len(c.actions) = 1
  /\ c.actions[1].kind = "Transform"
  /\ Len(c.actions[1].loops) = 0
  /\ c.actions[1].rule \in {PrimitiveName(p) : p \in Primitives}

\* C10: an action without loops yields one candidate, the incoming transform
\* unchanged: a custom rule whose body is a bare primitive invocation yields one
\* result per invocation, the identity for a bare top-level invocation and
\* translation(1,0,0) when invoked through { x 1 }.
C10_BareInvocation ==
  \A r \in Runs :
    (/\ phase = "ready"
     /\ runs[r].st # "idle"
     /\ "r1" \in DOMAIN rules
     /\ rules["r1"].kind = "Custom"
     /\ BarePrimitiveBody(rules["r1"].custom)
     /\ \A i \in 1..Len(top_level.actions) :
          top_level.actions[i] \in {Invoke("r1"), ActionTransform(<< LoopX1 >>, "r1")})
    => /\ runs[r].st \in {"running", "done"}
       /\ Ended(r) => Len(runs[r].out) = Len(top_level.actions)
       /\ Len(runs[r].out) <= Len(top_level.actions)
       /\ \A i \in 1..Len(runs[r].out) :
            runs[r].out[i] =
              Item(IF Len(top_level.actions[i].loops) = 0
                   THEN DefaultTransform ELSE Translation(1, 0, 0),
                   KindOf(rules["r1"].custom.actions[1].rule))

C10_Witness ==
  /\ phase = "ready"
  /\ "r1" \in DOMAIN rules
  /\ rules["r1"] = RuleCustom(DefBox)
  /\ top_level.actions = << Invoke("r1"), ActionTransform(<< LoopX1 >>, "r1") >>
  /\ runs[1].st = "done"
  /\ runs[1].out = << Item(DefaultTransform, "Box"), Item(Translation(1, 0, 0), "Box") >>

\* C6: parsing is total.  Parser::rules over any source text ends by returning
\* a rule table ("ready") or a parse error ("error") and never aborts: the
\* parse of no source text reaches a panic.
C6_ParsingIsTotal == phase # "panicked"

\* C11: an action with one loop (n, T), iterated from the incoming transform
\* t, yields exactly n candidates, the k-th being t * T^k (k = 1..n, in that
\* order); colour accumulates without wraparound: the action parsed from
\* "6 * { h 72 } box" yields the hues 72, 144, 216, 288, 360, 432 and the one
\* parsed from "{ x 2 } box" yields the single candidate translation(2,0,0).
C11_SingleLoop ==
  (iter.st # "idle" /\ Len(iter.action.loops) = 1) =>
    LET n == iter.action.loops[1].count
        T == iter.action.loops[1].transform
    IN  /\ Len(iter.got) <= n
        /\ iter.st = "ended" => Len(iter.got) = n
        /\ \A k \in 1..Len(iter.got) : iter.got[k] = TermOf(iter.tx, T, k)
        /\ (/\ iter.action.loops = ParsedAction(SixHue72Box).loops
            /\ iter.tx = DefaultTransform
            /\ iter.st = "ended")
           => /\ [k \in 1..Len(iter.got) |-> iter.got[k].hue]
                   = << 72, 144, 216, 288, 360, 432 >>
              /\ \A k \in 1..Len(iter.got) : iter.got[k] = Hsv(72 * k, 1, 1)
        /\ (/\ iter.action.loops = ParsedAction(X2Box).loops
            /\ iter.tx = DefaultTransform
            /\ iter.st = "ended")
           => iter.got = << Translation(2, 0, 0) >>

C11_Witness ==
  /\ iter.st = "ended"
  /\ iter.action.loops = ParsedAction(SixHue72Box).loops
  /\ iter.tx = DefaultTransform
  /\ Len(iter.got) = 6
  /\ iter.got[6].hue = 432

\* C12: the identity transform (identity matrix, hue 0, saturation, brightness
\* and alpha 1) is neutral for composition on both sides: t * identity = t and
\* identity * t = t for every transform t.
C12_IdentityNeutral ==
  iter.st = "product" =>
    /\ iter.rhs = DefaultTransform => iter.out = iter.lhs
    /\ iter.lhs = DefaultTransform => iter.out = iter.rhs

C12_Witness ==
  /\ iter.st = "product"
  /\ iter.rhs = DefaultTransform
  /\ iter.lhs = Mul(Scale(3, 3, 3), [Hsv(300, 0, 2) EXCEPT !.alpha = 3])
  /\ iter.out.tx[1] = << 3, 0, 0, -1 >>
  /\ iter.out.hue = 300 /\ iter.out.sat = 0 /\ iter.out.alpha = 3

\* the Custom definitions behind a name of the table
CustomsOf(rs, n) ==
  IF n \notin DOMAIN rs THEN {}
  ELSE CASE rs[n].kind = "Custom" -> {rs[n].custom}
         [] rs[n].kind = "Ambiguous" ->
              {rs[n].actions[i] : i \in 1..Len(rs[n].actions)}
         [] OTHER -> {}

\* the names a definition's body invokes
TargetsOf(c) ==
  {c.actions[i].rule : i \in {j \in 1..Len(c.actions) : c.actions[j].kind = "Transform"}}

RECURSIVE ReachSet(_, _, _)
\* the names reached from the names S in at most k further invocations
ReachSet(rs, S, k) ==
  IF k = 0 THEN S
  ELSE ReachSet(rs, S \cup UNION {UNION {TargetsOf(c) : c \in CustomsOf(rs, n)} : n \in S},
                k - 1)

CanReachItself(rs, c) ==
  c.rule.name \in ReachSet(rs, TargetsOf(c), Cardinality(DOMAIN rs))

\* every definition that can reach itself declares a max depth
AllRecursiveBounded(rs) ==
  \A n \in DOMAIN rs : \A c \in CustomsOf(rs, n) :
    CanReachItself(rs, c) => c.rule.max_depth # None

RECURSIVE ChildrenFrom(_, _, _, _)
\* the invocations the action list of c makes from i on, in source order: per
\* TransformAction one per candidate transform, in the order of the candidates
ChildrenFrom(c, i, tx, depth) ==
  IF i > Len(c.actions) THEN << >>
  ELSE IF c.actions[i].kind # "Transform" THEN ChildrenFrom(c, i + 1, tx, depth)
  ELSE Bind(TransformActionIter(c.actions[i], tx),
            LAMBDA cands :
              [k \in 1..Len(cands) |->
                 [name |-> c.actions[i].rule, tx |-> cands[k], depth |-> depth + 1]])
       \o ChildrenFrom(c, i + 1, tx, depth)

RECURSIVE Flatten(_, _, _)
\* the leaves of a depth-first, source-order walk over the pending invocations
\* `work` (a stack, first invocation on top)
Flatten(rs, work, rng) ==
  IF Len(work) = 0 THEN << >>
  ELSE LET w == Head(work)
           rule == rs[w.name]
       IN  IF rule.kind = "Primitive"
           THEN << Item(w.tx, rule.prim) >> \o Flatten(rs, Tail(work), rng)
           ELSE LET d == IF rule.kind = "Ambiguous" THEN Sample(rng, rule.weights)
                         ELSE [index |-> 1, rng |-> rng]
                    c == IF rule.kind = "Ambiguous" THEN rule.actions[d.index]
                         ELSE rule.custom
                IN  Flatten(rs,
                            (IF c.rule.max_depth = Some(w.depth) THEN << >>
                             ELSE ChildrenFrom(c, 1, w.tx, w.depth)) \o Tail(work),
                            d.rng)

\* a definition without the Set actions of its list
CustomWithoutSets(c) ==
  [c EXCEPT !.actions =
     LET keep == {i \in 1..Len(c.actions) : c.actions[i].kind # "Set"}
         F[i \in 0..Len(c.actions)] ==
           IF i = 0 THEN << >>
           ELSE IF i \in keep THEN Append(F[i - 1], c.actions[i]) ELSE F[i - 1]
     IN  F[Len(c.actions)]]

\* a table without the Set actions of its rules
WithoutSets(rs) ==
  [n \in DOMAIN rs |->
     CASE rs[n].kind = "Custom" -> RuleCustom(CustomWithoutSets(rs[n].custom))
       [] rs[n].kind = "Ambiguous" ->
            RuleAmbiguous(rs[n].name,
                          [i \in 1..Len(rs[n].actions) |-> CustomWithoutSets(rs[n].actions[i])],
                          rs[n].weights)
       [] OTHER -> rs[n]]

\* C14: the output of an evaluation is the concatenation, in source order of
\* the top-level actions and depth-first through the action list of every
\* expanded custom rule, of the results of each TransformAction; the Set
\* actions contribute nothing and the output is the one of the same program
\* without its Set actions.
C14_SourceOrderConcatenation ==
  \A r \in Runs :
    runs[r].st = "done" =>
      /\ runs[r].out
           = Flatten(rules, ChildrenFrom(top_level, 1, DefaultTransform, 0), runs[r].seed)
      /\ runs[r].out
           = SoloRun(WithoutSets(rules), CustomWithoutSets(top_level), runs[r].seed).out

C14_Witness ==
  /\ runs[1].st = "done"
  /\ top_level.actions = << SetMaxDepth(1), Invoke("r2") >>
  /\ rules["r2"] = RuleCustom(DefR2Nested)
  /\ rules["r1"] = RuleCustom(DefR1WithSet)
  /\ runs[1].out = << Item(DefaultTransform, "Box"), Item(Translation(1, 0, 0), "Dot"),
                      Item(DefaultTransform, "Grid"), Item(DefaultTransform, "Sphere") >>

\* the index tuples (k1..kn), 1 <= ki <= ci, of a loop list
IndexTuples(loops) ==
  LET n == Len(loops)
      top == CHOOSE c \in {loops[i].count : i \in 1..n} :
               \A i \in 1..n : loops[i].count <= c
  IN  {ks \in [1..n -> 1..top] : \A i \in 1..n : ks[i] <= loops[i].count}

RECURSIVE PositionFrom(_, _, _)
\* the position of the index tuple ks in an enumeration whose last index
\* varies fastest, less one
PositionFrom(loops, ks, i) ==
  IF i > Len(loops) THEN 0
  ELSE (ks[i] - 1) * CountsProduct(loops, i + 1) + PositionFrom(loops, ks, i + 1)

RECURSIVE SeededTerms(_, _, _, _)
\* (t * T1^k1) * (t * T2^k2) * ... * (t * Ti^ki), composed left to right
SeededTerms(loops, t, ks, i) ==
  IF i = 1 THEN TermOf(t, loops[1].transform, ks[1])
  ELSE Mul(SeededTerms(loops, t, ks, i - 1), TermOf(t, loops[i].transform, ks[i]))

\* C15: for loops (c1,T1)..(cn,Tn), n >= 1, and incoming transform t, the
\* candidate for the index tuple (k1..kn) is (t*T1^k1)*(t*T2^k2)*...*(t*Tn^kn):
\* t seeds every loop, so it enters a candidate once per loop; from
\* t = translation(1,0,0), 2 * { x 2 } 2 * { y 2 } starts with the candidate
\* translation(4,2,0).
C15_IncomingSeedsEveryLoop ==
  (iter.st = "ended" /\ Len(iter.action.loops) >= 1) =>
    /\ \A ks \in IndexTuples(iter.action.loops) :
         /\ PositionFrom(iter.action.loops, ks, 1) + 1 \in 1..Len(iter.got)
         /\ iter.got[PositionFrom(iter.action.loops, ks, 1) + 1]
              = SeededTerms(iter.action.loops, iter.tx, ks, Len(iter.action.loops))
    /\ (iter.action.loops = << Loop2X2, Loop2Y2 >> /\ iter.tx = Translation(1, 0, 0))
       => iter.got = << Translation(4, 2, 0), Translation(4, 4, 0),
                        Translation(6, 2, 0), Translation(6, 4, 0) >>

C15_Witness ==
  /\ iter.st = "ended"
  /\ iter.action.loops = << Loop2X2, Loop2Y2 >>
  /\ iter.tx = Translation(1, 0, 0)
  /\ Len(iter.got) = 4
  /\ iter.got[4] = Translation(6, 4, 0)

EntryTransform(e) ==
  CASE e[1].t = "X" -> Translation(e[2].num, 0, 0)
    [] e[1].t = "Y" -> Translation(0, e[2].num, 0)
    [] e[1].t = "Z" -> Translation(0, 0, e[2].num)
    [] e[1].t = "Rx" -> RotateX(e[2].num)
    [] e[1].t = "Ry" -> RotateY(e[2].num)
    [] e[1].t = "Rz" -> RotateZ(e[2].num)
    [] e[1].t = "S" -> IF Len(e) = 4 THEN Scale(e[2].num, e[3].num, e[4].num)
                       ELSE Scale(e[2].num, e[2].num, e[2].num)
    [] e[1].t = "Hue" -> Hsv(e[2].num, 1, 1)
    [] e[1].t = "Sat" -> Hsv(0, e[2].num, 1)
    [] e[1].t = "Brightness" -> Hsv(0, 1, e[2].num)
    [] e[1].t = "Alpha" -> [DefaultTransform EXCEPT !.alpha = e[2].num]

\* a keyword followed by its numbers: one, or for s one or three
WellFormedEntry(e) ==
  /\ e[1].t \in AttributeTokens \cup {"S"}
  /\ Len(e) = 2 \/ (e[1].t = "S" /\ Len(e) = 4)
  /\ \A i \in 2..Len(e) : e[i].t = "LiteralInteger"

RECURSIVE ComposeEntries(_, _)
\* the left-to-right composition of the primitive transforms of the entries
ComposeEntries(entries, i) ==
  IF i = 0 THEN DefaultTransform
  ELSE Mul(ComposeEntries(entries, i - 1), EntryTransform(entries[i]))

\* C18: the transform of a parsed block is the left-to-right composition, in
\* the order of appearance, of one primitive transform per attribute, also
\* when a keyword appears more than once (hue adds; saturation, brightness
\* and alpha multiply).
C18_BlockComposesAttributes ==
  (/\ iter.st = "parsed"
   /\ iter.closed
   /\ \A i \in 1..Len(iter.entries) : WellFormedEntry(iter.entries[i]))
  => /\ iter.res.st = "ok"
     /\ iter.res.val = ComposeEntries(iter.entries, Len(iter.entries))

\* C19: in a block, `s a b c` yields scale(a,b,c) and consumes three numbers;
\* whenever the reading of two more numbers after `s a` fails, at the first or
\* at the second of them, the parser goes on from the position just behind
\* `a` with the uniform scale(a,a,a), none of the following tokens consumed.
C19_ScaleRewinds ==
  (/\ iter.st = "parsed"
   /\ Len(lexer.src) >= 2
   /\ lexer.src[1].t = "S"
   /\ lexer.src[2].t = "LiteralInteger")
  => LET a == lexer.src[2].num
         b == NextNumber(lexer.src, 2)
         c == NextNumber(lexer.src, b.pos)
     IN  IF b.st = "ok" /\ c.st = "ok"
         THEN iter.res = ParseTransform(lexer.src, c.pos, Scale(a, b.val, c.val))
         ELSE iter.res = ParseTransform(lexer.src, 2, Scale(a, a, a))

\* the source without the tokens of the lexer's catch-all class
StripErrors(src) ==
  LET F[i \in 0..Len(src)] ==
        IF i = 0 THEN << >>
        ELSE IF src[i].t = "Error" THEN F[i - 1] ELSE Append(F[i - 1], src[i])
  IN  F[Len(src)]

\* what rules() has handed back: Ok(rules), Err(kind), or a panic
ParseOutcome ==
  [phase |-> phase, rules |-> rules, top_level |-> top_level, kind |-> lexer.kind]

\* C20: a run of characters of the lexer's catch-all class is skipped like
\* whitespace wherever it occurs: the result of parsing a source is the result
\* of parsing the source without these runs.
C20_CatchAllSkippedAnywhere ==
  phase # "parsing" => ParseOutcome = ParserRules(StripErrors(lexer.src))

RECURSIVE StreamAt(_, _)
\* the k-th value the generator seeded with `seed` produces
StreamAt(seed, k) == IF k = 0 THEN seed ELSE RngNext(StreamAt(seed, k - 1))

RECURSIVE Walk(_, _, _, _, _)
\* a depth-first, source-order walk over the pending invocations `work` in
\* which the k-th Ambiguous rule reached takes the k-th value of the stream:
\* the leaves, and per Ambiguous occurrence the name and the index chosen
Walk(rs, work, seed, leaves, occs) ==
  IF Len(work) = 0 THEN [leaves |-> leaves, occs |-> occs]
  ELSE LET w == Head(work)
           rule == rs[w.name]
       IN  IF rule.kind = "Primitive"
           THEN Walk(rs, Tail(work), seed, Append(leaves, Item(w.tx, rule.prim)), occs)
           ELSE LET index == IF rule.kind = "Ambiguous"
                             THEN PickIndex(rule.weights,
                                            StreamAt(seed, Len(occs) + 1)
                                              % SumSeq(rule.weights, 1), 1, 0)
                             ELSE 1
                    c == IF rule.kind = "Ambiguous" THEN rule.actions[index]
                         ELSE rule.custom
                IN  Walk(rs,
                         (IF c.rule.max_depth = Some(w.depth) THEN << >>
                          ELSE ChildrenFrom(c, 1, w.tx, w.depth)) \o Tail(work),
                         seed, leaves,
                         IF rule.kind = "Ambiguous"
                         THEN Append(occs, [name |-> w.name, index |-> index])
                         ELSE occs)

\* C21: every time the evaluation reaches an Ambiguous rule it draws exactly
\* one fresh sample from the run's generator and expands the selected
\* definition only; nothing is memoized: the k-th occurrence reached in a run
\* is decided by the k-th value of the generator's stream, also for the
\* candidates of one action, and the run has drawn as often as it has reached
\* Ambiguous rules.
C21_OneDrawPerOccurrence ==
  \A r \in Runs :
    runs[r].st = "done" =>
      LET walk == Walk(rules, ChildrenFrom(top_level, 1, DefaultTransform, 0),
                       runs[r].seed, << >>, << >>)
      IN  /\ runs[r].picks = [k \in 1..Len(walk.occs) |-> walk.occs[k].index]
          /\ runs[r].rng = StreamAt(runs[r].seed, Len(walk.occs))
          /\ runs[r].out = walk.leaves

C21_Witness ==
  /\ runs[1].st = "done"
  /\ top_level.actions = << ActionTransform(<< Loop2X2 >>, "r1") >>
  /\ rules["r1"].kind = "Ambiguous"
  /\ Len(runs[1].picks) = 2
  /\ runs[1].picks[1] # runs[1].picks[2]
  /\ {runs[1].out[k].prim : k \in 1..Len(runs[1].out)} = {"Dot", "Grid", "Line"}


\* the TransformActions of a rule table: the top level's and every rule's
TransformActionsOf(rs, top) ==
  {top.actions[i] : i \in {j \in 1..Len(top.actions) : top.actions[j].kind = "Transform"}}
  \cup UNION {{c.actions[i] :
                 i \in {j \in 1..Len(c.actions) : c.actions[j].kind = "Transform"}} :
              c \in UNION {CustomsOf(rs, n) : n \in DOMAIN rs}}

\* C22: in the rule table of a successful parse every TransformationLoop has
\* a count of at least 1, so every parsed TransformAction yields at least one
\* candidate transform for an incoming transform.
C22_ParsedCountsPositive ==
  phase = "ready" =>
    \A a \in TransformActionsOf(rules, top_level) :
      /\ \A l \in 1..Len(a.loops) : a.loops[l].count >= 1
      /\ Len(TransformActionIter(a, DefaultTransform)) >= 1

====
